---- MODULE Spec2Model ----
(***************************************************************************)
(* Model of homeassistant/components/supla/__init__.py: setup() and its    *)
(* server registry, discover_devices() and the update interval it          *)
(* resolves, and the SuplaChannel entity with its throttled update().      *)
(*                                                                         *)
(* Durations are whole seconds.  An optional value (None or a value) is a  *)
(* sequence of length 0 or 1.  A Python dict is a sequence of              *)
(* [key, value] entries in insertion order.  A string the code transforms  *)
(* (the device GUID, the unique id) is a sequence of one-character         *)
(* strings.                                                                *)
(***************************************************************************)
EXTENDS Integers, Sequences, FiniteSets, TLC

VARIABLES
    base_config,     \* base_config[DOMAIN][CONF_SERVERS]: the validated server_confs
    remote,          \* the Supla servers behind SuplaAPI, keyed by server address
    setup_result,    \* <<>> before setup() ran, then <<its return value>>
    supla_servers,   \* hass.data[SUPLA_SERVERS]
    platform_calls,  \* the load_platform calls made, in order
    platforms_added, \* how many of those platforms have added their entities
    entities,        \* the SuplaChannel objects, in the order they were constructed
    now,             \* utcnow(), in seconds
    api_calls,       \* the get_channel calls made on the SuplaAPI objects
    requests         \* the update() calls the host made, with what each one did

vars == <<base_config, remote, setup_result, supla_servers, platform_calls,
          platforms_added, entities, now, api_calls, requests>>

----------------------------------------------------------------------------
(* Module-level constants of the integration *)

SUPLA_FUNCTION_HA_CMP_MAP ==
    [CONTROLLINGTHEROLLERSHUTTER |-> "cover",
     CONTROLLINGTHEGATE |-> "cover",
     LIGHTSWITCH |-> "switch"]

SUPLA_FUNCTION_NONE == "NONE"

SUPLA_API_CALL_LIMIT == 950

\* SCAN_INTERVAL.total_seconds()
SCAN_INTERVAL == 10

\* the literal 3600 of the interval computation
SECONDS_PER_HOUR == 3600

----------------------------------------------------------------------------
(* Bounds of the model *)

\* servers in one configuration
MaxServers == 2
\* channels over all servers of a configuration whose lists are enumerated in full
MaxChannels == 3
\* channels of the single server of a configuration with a long channel list
MaxCount == 100
\* channels of the server whose entities the host polls for an hour
MaxPolled == 29
\* update() calls of one run of the host
MaxRequests == 3
\* the clock stops here
MaxTime == 30
\* seconds between two moments the host can act at
TickSeconds == 5

----------------------------------------------------------------------------
(* Python helpers *)

None == <<>>

Some(v) == <<v>>

\* math.ceil(a / b) for an exact quotient a / b, b > 0
Ceil(a, b) == -((-a) \div b)

\* dict.get(key) is not None, on a dict kept as a sequence of entries
HasKey(d, k) == \E i \in DOMAIN d : d[i].key = k

\* the position of a key the dict holds
IndexOf(d, k) == CHOOSE i \in DOMAIN d : d[i].key = k

\* d[key]
Get(d, k) == d[IndexOf(d, k)].value

\* d[key] = value: an existing key keeps its place, a new one goes last
DictSet(d, k, v) ==
    IF HasKey(d, k)
    THEN SubSeq(d, 1, IndexOf(d, k) - 1) \o <<[key |-> k, value |-> v]>>
             \o SubSeq(d, IndexOf(d, k) + 1, Len(d))
    ELSE Append(d, [key |-> k, value |-> v])

\* str.lower() of one character
LowerChar(c) ==
    CASE c = "A" -> "a" [] c = "B" -> "b" [] c = "C" -> "c"
      [] c = "D" -> "d" [] c = "E" -> "e" [] c = "F" -> "f"
      [] OTHER -> c

\* str.lower()
Lower(s) == [i \in DOMAIN s |-> LowerChar(s[i])]

Digit(d) == <<"0", "1", "2", "3", "4", "5", "6", "7", "8", "9">>[d + 1]

\* "{}".format(n) for an integer n >= 0
RECURSIVE Format(_)
Format(n) == IF n < 10 THEN <<Digit(n)>> ELSE Format(n \div 10) \o <<Digit(n % 10)>>

----------------------------------------------------------------------------
(* The remote side: what the SuplaAPI client answers.  remote[address] is  *)
(* [info, channels]: how the server answers get_server_info, and the       *)
(* channels it exposes, each with every field group the API can return.    *)

\* the fields of a channel the API returns whatever the include list
BaseFields == {"id", "function", "channelNumber", "caption"}

\* a channel as the API returns it for an include list: the base fields and
\* the field groups asked for
Project(channel, include) ==
    [k \in BaseFields \cup (include \cap DOMAIN channel) |-> channel[k]]

\* server.get_server_info(): raises OSError, or returns the server's info
get_server_info(env, address) ==
    [raised |-> env[address].info = "oserror",
     authenticated |-> env[address].info = "authenticated"]

\* server.get_channels(include=[...])
get_channels(env, address, include) ==
    [i \in DOMAIN env[address].channels |-> Project(env[address].channels[i], include)]

\* the channel of a server with the given id
ChannelById(env, address, id) ==
    env[address].channels[CHOOSE i \in DOMAIN env[address].channels :
                              env[address].channels[i].id = id]

\* server.get_channel(id, include=[...]), with the connection state of the moment
get_channel(env, address, id, include, connected) ==
    Project([ChannelById(env, address, id) EXCEPT
                 !.connected = connected, !.state = [connected |-> connected]],
            include)

----------------------------------------------------------------------------
(* discover_devices *)

\* resolve_update_interval computing from the channel count whatever the
\* configuration says
resolve_update_interval_computed(server, channels) ==
    Ceil(SECONDS_PER_HOUR * Len(channels), SUPLA_API_CALL_LIMIT * SCAN_INTERVAL)
        * SCAN_INTERVAL

\* resolve_update_interval counting only the channels with a mapped function
resolve_update_interval_mapped(server, channels) ==
    LET mapped == {j \in DOMAIN channels :
                      channels[j].function.name \in DOMAIN SUPLA_FUNCTION_HA_CMP_MAP}
        interval ==
            IF server.update_interval = None
            THEN [num |-> SECONDS_PER_HOUR * Cardinality(mapped),
                  den |-> SUPLA_API_CALL_LIMIT]
            ELSE [num |-> server.update_interval[1], den |-> 1]
    IN  Ceil(interval.num, interval.den * SCAN_INTERVAL) * SCAN_INTERVAL

\* resolve_update_interval rounding down to the scan interval
resolve_update_interval_floor(server, channels) ==
    LET interval ==
            IF server.update_interval = None
            THEN [num |-> SECONDS_PER_HOUR * Len(channels), den |-> SUPLA_API_CALL_LIMIT]
            ELSE [num |-> server.update_interval[1], den |-> 1]
    IN  (interval.num \div (interval.den * SCAN_INTERVAL)) * SCAN_INTERVAL

\* the update interval discover_devices resolves for a server, in seconds.
\* The quotient 3600 * len(channels) / 950 is kept exact as num / den; the
\* float the code computes rounds to the same multiple of ten.
resolve_update_interval(server, channels) ==
    LET interval ==
            IF server.update_interval = None
            THEN [num |-> SECONDS_PER_HOUR * Len(channels), den |-> SUPLA_API_CALL_LIMIT]
            ELSE [num |-> server.update_interval[1], den |-> 1]
    IN  Ceil(interval.num, interval.den * SCAN_INTERVAL) * SCAN_INTERVAL

\* channel["server_name"] = ...; channel["update_interval"] = ...
Stamp(channel, server_name, interval) ==
    [k \in DOMAIN channel \cup {"server_name", "update_interval"} |->
        IF k = "server_name" THEN server_name
        ELSE IF k = "update_interval" THEN interval
        ELSE channel[k]]

\* whether the channel loop hands a channel on: its function is not "NONE"
\* and the table has it
Mapped(channel) ==
    /\ channel.function.name # SUPLA_FUNCTION_NONE
    /\ channel.function.name \in DOMAIN SUPLA_FUNCTION_HA_CMP_MAP

\* channel_loop leaving the loop at the first channel whose function the
\* table lacks
channel_loop_break(channels, server_name, interval) ==
    LET unsupported == {j \in DOMAIN channels :
                           /\ channels[j].function.name # SUPLA_FUNCTION_NONE
                           /\ channels[j].function.name
                                  \notin DOMAIN SUPLA_FUNCTION_HA_CMP_MAP}
        stop == IF unsupported = {} THEN Len(channels) + 1
                ELSE CHOOSE j \in unsupported : \A i \in unsupported : j <= i
        kept == SelectSeq(SubSeq(channels, 1, stop - 1), Mapped)
    IN  [j \in DOMAIN kept |-> Stamp(kept[j], server_name, interval)]

\* the loop over the channels of one server: the channels it appends to
\* component_configs, stamped, in the order it meets them (the channels that
\* are skipped with `continue` leave no trace)
channel_loop(channels, server_name, interval) ==
    LET kept == SelectSeq(channels, Mapped)
    IN  [j \in DOMAIN kept |-> Stamp(kept[j], server_name, interval)]

\* the loop over hass.data[SUPLA_SERVERS].items(), from entry i on: the
\* channels appended to component_configs, in order
RECURSIVE server_loop(_, _, _)
server_loop(env, servers, i) ==
    IF i > Len(servers) THEN <<>>
    ELSE LET server_name == servers[i].key
             server == servers[i].value
             channels == get_channels(env, server.address,
                                      {"iodevice", "connected", "state"})
             interval == resolve_update_interval(server, channels)
         IN  channel_loop(channels, server_name, interval)
                 \o server_loop(env, servers, i + 1)

\* component_configs after component_configs.setdefault(component_name,
\* []).append(channel) for each channel of a sequence: one entry per
\* component, in the order the components first occur, each with its
\* channels in order
component_configs(appended) ==
    LET component(j) == SUPLA_FUNCTION_HA_CMP_MAP[appended[j].function.name]
        names == {component(j) : j \in DOMAIN appended}
        first(c) == CHOOSE j \in DOMAIN appended :
                        /\ component(j) = c
                        /\ \A i \in 1..(j - 1) : component(i) # c
        nth(k) == CHOOSE c \in names :
                      Cardinality({d \in names : first(d) < first(c)}) = k - 1
    IN  [k \in 1..Cardinality(names) |->
            LET OfComponent(channel) ==
                    SUPLA_FUNCTION_HA_CMP_MAP[channel.function.name] = nth(k)
            IN  [key |-> nth(k), value |-> SelectSeq(appended, OfComponent)]]

\* discover_devices(hass, hass_config): the load_platform calls it makes,
\* one [key |-> component_name, value |-> channels] per component, in order
discover_devices(env, servers) == component_configs(server_loop(env, servers, 1))

----------------------------------------------------------------------------
(* setup *)

\* setup_loop storing the server before it tests the connection
RECURSIVE setup_loop_store_first(_, _, _, _)
setup_loop_store_first(env, server_confs, i, servers) ==
    IF i > Len(server_confs) THEN [returned_false |-> FALSE, servers |-> servers]
    ELSE LET server_conf == server_confs[i]
             server_address == server_conf.server
             server == [address |-> server_address,
                        update_interval |-> server_conf.scan_interval]
             srv_info == get_server_info(env, server_address)
             stored == DictSet(servers, server_address, server)
         IN  IF srv_info.raised
             THEN [returned_false |-> TRUE, servers |-> stored]
             ELSE IF srv_info.authenticated
             THEN setup_loop_store_first(env, server_confs, i + 1, stored)
             ELSE [returned_false |-> TRUE, servers |-> stored]

\* the loop over server_confs, from entry i on: whether it returned False,
\* and hass.data[SUPLA_SERVERS] when it ended
RECURSIVE setup_loop(_, _, _, _)
setup_loop(env, server_confs, i, servers) ==
    IF i > Len(server_confs) THEN [returned_false |-> FALSE, servers |-> servers]
    ELSE LET server_conf == server_confs[i]
             server_address == server_conf.server
             server == [address |-> server_address,
                        update_interval |-> server_conf.scan_interval]
             srv_info == get_server_info(env, server_address)
         IN  IF srv_info.raised
             THEN [returned_false |-> TRUE, servers |-> servers]
             ELSE IF srv_info.authenticated
             THEN setup_loop(env, server_confs, i + 1,
                             DictSet(servers, server_address, server))
             ELSE [returned_false |-> TRUE, servers |-> servers]

\* setup(hass, base_config): its return value, hass.data[SUPLA_SERVERS]
\* afterwards and the load_platform calls made
setup(env, server_confs) ==
    LET loop == setup_loop(env, server_confs, 1, <<>>)
    IN  IF loop.returned_false
        THEN [result |-> FALSE, servers |-> loop.servers, loads |-> <<>>]
        ELSE [result |-> TRUE, servers |-> loop.servers,
              loads |-> discover_devices(env, loop.servers)]

----------------------------------------------------------------------------
(* SuplaChannel *)

\* homeassistant.util.Throttle(min_time): the state it keeps for one method
Throttle(min_time) == [min_time |-> min_time, last_call |-> None]

\* whether a Throttle lets a call at time t through: it does when the method
\* was never called, or more than min_time has passed since its last return
ThrottleAllows(throttle, t) ==
    \/ throttle.last_call = None
    \/ t - throttle.last_call[1] > throttle.min_time

\* SuplaChannel.__init__ throttling update() by the module's SCAN_INTERVAL
SuplaChannel_init_scan_interval(channel_data) ==
    [server_name |-> channel_data.server_name,
     update_interval |-> channel_data.update_interval,
     channel_data |-> channel_data,
     update |-> Throttle(SCAN_INTERVAL)]

\* SuplaChannel.__init__(channel_data)
SuplaChannel_init(channel_data) ==
    [server_name |-> channel_data.server_name,
     update_interval |-> channel_data.update_interval,
     channel_data |-> channel_data,
     update |-> Throttle(channel_data.update_interval)]

\* SuplaChannel.unique_id: the string, or raised when a key is missing
unique_id(entity) ==
    IF "iodevice" \in DOMAIN entity.channel_data
    THEN [raised |-> FALSE,
          value |-> <<"s", "u", "p", "l", "a", "-">>
                    \o Lower(entity.channel_data.iodevice.gUIDString)
                    \o <<"-">>
                    \o Format(entity.channel_data.channelNumber)]
    ELSE [raised |-> TRUE, value |-> <<>>]

\* SuplaChannel._update() dropping the record it holds when the call raises
SuplaChannel_update_drop(env, servers, entity, t, answer) ==
    LET server == Get(servers, entity.server_name)
        call == [server |-> server.address, id |-> entity.channel_data.id,
                 include |-> {"connected", "state"}, time |-> t]
    IN  IF answer.raised
        THEN [entity |-> [entity EXCEPT !.channel_data = [id |-> entity.channel_data.id]],
              calls |-> <<call>>, raised |-> TRUE]
        ELSE [entity |-> [entity EXCEPT !.channel_data =
                             get_channel(env, server.address, entity.channel_data.id,
                                         {"connected", "state"}, answer.connected)],
              calls |-> <<call>>, raised |-> FALSE]

\* SuplaChannel._update() at time t, when the server answers the get_channel
\* call with `answer`: the entity afterwards, the calls made, whether it raised
SuplaChannel_update(env, servers, entity, t, answer) ==
    LET server == Get(servers, entity.server_name)
        call == [server |-> server.address, id |-> entity.channel_data.id,
                 include |-> {"connected", "state"}, time |-> t]
    IN  IF answer.raised
        THEN [entity |-> entity, calls |-> <<call>>, raised |-> TRUE]
        ELSE [entity |-> [entity EXCEPT !.channel_data =
                             get_channel(env, server.address, entity.channel_data.id,
                                         {"connected", "state"}, answer.connected)],
              calls |-> <<call>>, raised |-> FALSE]

\* SuplaChannel.update() at time t: _update behind its Throttle
SuplaChannel_throttled_update(env, servers, entity, t, answer) ==
    IF ThrottleAllows(entity.update, t)
    THEN LET done == SuplaChannel_update(env, servers, entity, t, answer)
         IN  IF done.raised
             THEN [entity |-> done.entity, calls |-> done.calls, outcome |-> "raised"]
             ELSE [entity |-> [done.entity EXCEPT !.update.last_call = Some(t)],
                   calls |-> done.calls, outcome |-> "fetched"]
    ELSE [entity |-> entity, calls |-> <<>>, outcome |-> "throttled"]

----------------------------------------------------------------------------
(* The installations the model starts from *)

ServerAddresses == <<"A", "B", "C", "D">>

\* the device of each server
DeviceGUIDs == <<<<"A", "B", "0", "1">>, <<"c", "D", "0", "2">>,
                 <<"E", "f", "0", "3">>, <<"0", "A", "0", "4">>>>

\* channel i of server k, with the function fn
RemoteChannel(k, i, fn) ==
    [id |-> 1000 * k + i,
     function |-> [name |-> fn],
     channelNumber |-> i - 1,
     caption |-> "channel",
     iodevice |-> [gUIDString |-> DeviceGUIDs[k]],
     connected |-> TRUE,
     state |-> [connected |-> TRUE]]

RemoteChannels(k, fns) == [i \in DOMAIN fns |-> RemoteChannel(k, i, fns[i])]

\* the function names a server reports: none, one the table lacks, mapped ones
FunctionCycle == <<"LIGHTSWITCH", "NONE", "CONTROLLINGTHEGATE", "THERMOMETER",
                   "CONTROLLINGTHEROLLERSHUTTER">>

\* n function names, going round FunctionCycle from the given offset
Cycle(n, offset) == [i \in 1..n |-> FunctionCycle[((i - 1 + offset) % Len(FunctionCycle)) + 1]]

SeqsUpTo(S, n) == UNION {[1..m -> S] : m \in 0..n}

\* the part of a sequence after position a, up to position b
Slice(s, a, b) == [i \in 1..(b - a) |-> s[a + i]]

\* an installation: the server_confs and the servers behind them
Installation(intervals, infos, fns) ==
    [config |-> [k \in DOMAIN intervals |->
                    [server |-> ServerAddresses[k], scan_interval |-> intervals[k]]],
     env |-> [a \in {ServerAddresses[k] : k \in DOMAIN intervals} |->
                LET k == CHOOSE k \in DOMAIN intervals : ServerAddresses[k] = a
                IN  [info |-> infos[k], channels |-> RemoteChannels(k, fns[k])]]]

\* the state before setup() is called
Start(installation) ==
    /\ base_config = installation.config
    /\ remote = installation.env
    /\ setup_result = None
    /\ supla_servers = <<>>
    /\ platform_calls = <<>>
    /\ platforms_added = 0
    /\ entities = <<>>
    /\ now = 0
    /\ api_calls = <<>>
    /\ requests = <<>>

ServerInfos == {"authenticated", "unauthenticated", "oserror"}

\* up to MaxServers servers, each answering get_server_info in any way; the
\* authenticated ones share up to MaxChannels channels of any functions
InitServers ==
    \E k \in 1..MaxServers :
    \E fs \in SeqsUpTo({"NONE", "THERMOMETER", "LIGHTSWITCH", "CONTROLLINGTHEGATE"},
                       MaxChannels) :
    \E cut \in [0..k -> 0..Len(fs)] :
        /\ cut[0] = 0 /\ cut[k] = Len(fs)
        /\ \A i \in 1..k : cut[i - 1] <= cut[i]
        /\ \E infos \in [1..k -> ServerInfos] :
              /\ \A i \in 1..k : infos[i] # "authenticated" => cut[i - 1] = cut[i]
              /\ \E intervals \in [1..k -> {None, Some(15)}] :
                    Start(Installation(intervals, infos,
                                       [i \in 1..k |-> Slice(fs, cut[i - 1], cut[i])]))

ExplicitIntervals == {0, 1, 10, 15, 30, 45}

\* one authenticated server with up to MaxCount channels
InitCounts ==
    \E n \in 0..MaxCount :
    \E offset \in 0..(Len(FunctionCycle) - 1) :
    \E interval \in {None} \cup {Some(s) : s \in ExplicitIntervals} :
        Start(Installation(<<interval>>, <<"authenticated">>, <<Cycle(n, offset)>>))

\* one authenticated server with a few channels
InitRun ==
    \E n \in 1..MaxChannels :
    \E offset \in {0, 1, 2} :
    \E interval \in {None, Some(15)} :
        Start(Installation(<<interval>>, <<"authenticated">>, <<Cycle(n, offset)>>))

\* one authenticated server without a scan_interval whose channels are all
\* light switches
InitPolled ==
    \E n \in 1..MaxPolled :
        Start(Installation(<<None>>, <<"authenticated">>,
                           <<[i \in 1..n |-> "LIGHTSWITCH"]>>))

----------------------------------------------------------------------------
(* Actions *)

\* the host calls setup(hass, base_config)
Setup ==
    /\ setup_result = None
    /\ LET done == setup(remote, base_config)
       IN  /\ setup_result' = Some(done.result)
           /\ supla_servers' = done.servers
           /\ platform_calls' = done.loads
    /\ UNCHANGED <<base_config, remote, platforms_added, entities, now, api_calls,
                   requests>>

\* the next loaded platform (cover or switch) constructs one entity for each
\* channel it was handed and adds them
SetupPlatform ==
    /\ setup_result = Some(TRUE)
    /\ platforms_added < Len(platform_calls)
    /\ LET discovery_info == platform_calls[platforms_added + 1].value
       IN  entities' = entities \o
               [i \in DOMAIN discovery_info |-> SuplaChannel_init(discovery_info[i])]
    /\ platforms_added' = platforms_added + 1
    /\ UNCHANGED <<base_config, remote, setup_result, supla_servers, platform_calls,
                   now, api_calls, requests>>

\* how the server can answer a get_channel call
Answers ==
    {[raised |-> TRUE, connected |-> FALSE]}
        \cup {[raised |-> FALSE, connected |-> c] : c \in BOOLEAN}

\* the host calls update() on entity e
Update(e) ==
    /\ Len(requests) < MaxRequests
    /\ \E answer \in Answers :
        LET done == SuplaChannel_throttled_update(remote, supla_servers, entities[e],
                                                  now, answer)
        IN  /\ entities' = [entities EXCEPT ![e] = done.entity]
            /\ api_calls' = api_calls \o done.calls
            /\ requests' = Append(requests,
                                  [entity |-> e, time |-> now, outcome |-> done.outcome])
    /\ UNCHANGED <<base_config, remote, setup_result, supla_servers, platform_calls,
                   platforms_added, now>>

\* time passes
Tick ==
    /\ now + TickSeconds <= MaxTime
    /\ now' = now + TickSeconds
    /\ UNCHANGED <<base_config, remote, setup_result, supla_servers, platform_calls,
                   platforms_added, entities, api_calls, requests>>

\* the host polls every entity, each get_channel call being answered, then
\* comes back as soon as the throttle of the entities has run out
PollCycle ==
    /\ platforms_added = Len(platform_calls)
    /\ entities # <<>>
    /\ now < SECONDS_PER_HOUR
    /\ LET done == [e \in DOMAIN entities |->
                       SuplaChannel_throttled_update(
                           remote, supla_servers, entities[e], now,
                           [raised |-> FALSE, connected |-> TRUE])]
           Called(d) == d.calls # <<>>
           called == SelectSeq(done, Called)
       IN  /\ entities' = [e \in DOMAIN entities |-> done[e].entity]
           /\ api_calls' = api_calls \o [i \in DOMAIN called |-> called[i].calls[1]]
           /\ requests' = requests \o
                  [e \in DOMAIN entities |->
                      [entity |-> e, time |-> now, outcome |-> done[e].outcome]]
    /\ now' = now + entities[1].update_interval + 1
    /\ UNCHANGED <<base_config, remote, setup_result, supla_servers, platform_calls,
                   platforms_added>>

----------------------------------------------------------------------------
(* Specifications *)

\* a small installation, set up and then polled by the host
Init == InitRun

Next ==
    \/ Setup
    \/ SetupPlatform
    \/ \E e \in DOMAIN entities : Update(e)
    \/ Tick

Spec == Init /\ [][Next]_vars

\* setup() and the platforms on every installation
InitSetup == InitServers \/ InitCounts

NextSetup == Setup \/ SetupPlatform

SpecSetup == InitSetup /\ [][NextSetup]_vars

\* one server polled as often as its entities allow, for an hour
NextPolled == Setup \/ SetupPlatform \/ PollCycle

SpecPolled == InitPolled /\ [][NextPolled]_vars

----------------------------------------------------------------------------
(* What the claims speak of *)

\* the server_conf of a server
ConfOf(address) ==
    base_config[CHOOSE k \in DOMAIN base_config : base_config[k].server = address]

\* the channels handed to load_platform, as <<call, position>> pairs
Handed ==
    UNION {{<<p, i>> : i \in DOMAIN platform_calls[p].value} : p \in DOMAIN platform_calls}

HandedChannel(h) == platform_calls[h[1]].value[h[2]]

\* the number of channels get_channels returns for a server
ChannelCount(address) == Len(remote[address].channels)

MappedFunctions == {"CONTROLLINGTHEROLLERSHUTTER", "CONTROLLINGTHEGATE", "LIGHTSWITCH"}

\* the first server_conf whose server did not authenticate, 0 when all did
FirstFailing ==
    IF \A k \in DOMAIN base_config : remote[base_config[k].server].info = "authenticated"
    THEN 0
    ELSE CHOOSE k \in DOMAIN base_config :
            /\ remote[base_config[k].server].info # "authenticated"
            /\ \A i \in 1..(k - 1) : remote[base_config[i].server].info = "authenticated"

----------------------------------------------------------------------------
(* Claims about setup() and discover_devices(), under SpecSetup *)

C2_Verbatim ==
    \A h \in Handed :
        LET conf == ConfOf(HandedChannel(h).server_name)
        IN  conf.scan_interval # None =>
                HandedChannel(h).update_interval = conf.scan_interval[1]

\* C2, amended: a channel of a server configured with scan_interval s is
\* handed over with the least multiple of 10 seconds that is at least s,
\* whatever the number of channels of the server.
C2_RoundedUp ==
    \A h \in Handed :
        LET conf == ConfOf(HandedChannel(h).server_name)
            u == HandedChannel(h).update_interval
        IN  conf.scan_interval # None =>
                /\ u % 10 = 0
                /\ conf.scan_interval[1] <= u
                /\ u < conf.scan_interval[1] + 10

\* a channel of a server with scan_interval 15 among 40 channels is handed over
C2_Witness ==
    \E h \in Handed :
        /\ ConfOf(HandedChannel(h).server_name).scan_interval = Some(15)
        /\ ChannelCount(HandedChannel(h).server_name) = 40
        /\ HandedChannel(h).update_interval = 20

\* C3: a channel of a server without a scan_interval is handed over with
\* update_interval 10 * ceil(ceil(3600 * N / 950) / 10), N being the number
\* of channels of the server, mapped or not.
C3_ComputedInterval ==
    \A h \in Handed :
        LET address == HandedChannel(h).server_name
        IN  ConfOf(address).scan_interval = None =>
                HandedChannel(h).update_interval =
                    10 * Ceil(Ceil(3600 * ChannelCount(address), 950), 10)

\* a channel of a server with 27 channels, some of them "NONE" and some
\* unmapped, is handed over without a scan_interval
C3_Witness ==
    \E h \in Handed :
        LET address == HandedChannel(h).server_name
        IN  /\ ConfOf(address).scan_interval = None
            /\ ChannelCount(address) = 27
            /\ \E j \in DOMAIN remote[address].channels :
                  remote[address].channels[j].function.name = "NONE"
            /\ \E j \in DOMAIN remote[address].channels :
                  remote[address].channels[j].function.name = "THERMOMETER"

\* C4 as stated: with 100 channels and no scan_interval the update_interval
\* handed over is 40 seconds.
C4_Hundred_40 ==
    \A h \in Handed :
        LET address == HandedChannel(h).server_name
        IN  (ConfOf(address).scan_interval = None /\ ChannelCount(address) = 100) =>
                HandedChannel(h).update_interval = 40

\* C4, amended: with 100 channels and no scan_interval the update_interval
\* handed over is 380 seconds.
C4_Hundred_380 ==
    \A h \in Handed :
        LET address == HandedChannel(h).server_name
        IN  (ConfOf(address).scan_interval = None /\ ChannelCount(address) = 100) =>
                HandedChannel(h).update_interval = 380

\* a channel of a server with 100 channels and no scan_interval is handed over
C4_Witness ==
    \E h \in Handed :
        /\ ConfOf(HandedChannel(h).server_name).scan_interval = None
        /\ ChannelCount(HandedChannel(h).server_name) = 100

\* the component a function name belongs to
CategoryOf(name) == IF name = "LIGHTSWITCH" THEN "switch" ELSE "cover"

\* C7: no channel with function "NONE" or a function outside the table is
\* handed to load_platform, and once setup() returned True every channel of
\* every server with a function of the table was handed over under its
\* category, whatever other channels the servers have.
C7_FunctionFiltering ==
    /\ \A h \in Handed :
          /\ HandedChannel(h).function.name \in MappedFunctions
          /\ platform_calls[h[1]].key = CategoryOf(HandedChannel(h).function.name)
    /\ setup_result = Some(TRUE) =>
          \A k \in DOMAIN base_config :
              \A j \in DOMAIN remote[base_config[k].server].channels :
                  LET channel == remote[base_config[k].server].channels[j]
                  IN  channel.function.name \in MappedFunctions =>
                          \E h \in Handed :
                              /\ HandedChannel(h).id = channel.id
                              /\ HandedChannel(h).server_name = base_config[k].server
                              /\ platform_calls[h[1]].key =
                                     CategoryOf(channel.function.name)

\* a mapped channel that follows a "NONE" channel and an unmapped one on its
\* server was handed over
C7_Witness ==
    \E h \in Handed :
        LET channels == remote[HandedChannel(h).server_name].channels
        IN  \E a, b, c \in DOMAIN channels :
                /\ a < c /\ b < c
                /\ channels[a].function.name = "NONE"
                /\ channels[b].function.name = "THERMOMETER"
                /\ channels[c].id = HandedChannel(h).id

\* C9 as stated: the update_interval of every entity is a multiple of 10
\* seconds and at least 10 seconds.
C9_BaseTickFloor ==
    \A e \in DOMAIN entities :
        /\ entities[e].update_interval % 10 = 0
        /\ entities[e].update_interval >= 10

----------------------------------------------------------------------------
(* Claims about SuplaChannel, under Spec and SpecPolled *)

\* the update() calls of entity e so far that fetched a record
Fetches(e) ==
    {i \in DOMAIN requests : requests[i].entity = e /\ requests[i].outcome = "fetched"}

\* when the latest of them returned
LastFetchTime(e) == requests[CHOOSE i \in Fetches(e) : \A j \in Fetches(e) : j <= i].time

\* this step is an update() call on entity e
Requested(e) ==
    /\ Len(requests') = Len(requests) + 1
    /\ requests'[Len(requests')].entity = e

\* C5: an update() call that arrives less than update_interval after the
\* entity's previous successful refresh makes no get_channel call and leaves
\* channel_data as it is; a get_channel call is only ever made inside an
\* update() call, one per call.
C5_RefreshThrottle ==
    [][/\ \A e \in DOMAIN entities :
             (/\ Requested(e)
              /\ Fetches(e) # {}
              /\ now - LastFetchTime(e) < entities[e].update_interval)
                 => /\ api_calls' = api_calls
                    /\ entities'[e].channel_data = entities[e].channel_data
       /\ api_calls' # api_calls =>
             /\ Len(requests') = Len(requests) + 1
             /\ Len(api_calls') = Len(api_calls) + 1]_vars

\* an update() call was throttled 15 seconds after a successful refresh of
\* the same entity
C5_Witness ==
    \E i, j \in DOMAIN requests :
        /\ i < j
        /\ requests[i].entity = requests[j].entity
        /\ requests[i].outcome = "fetched"
        /\ requests[j].outcome = "throttled"
        /\ requests[j].time - requests[i].time = 15
        /\ Len(api_calls) = 1

\* C6 as stated: the unique_id of every entity is defined and is "supla-",
\* the lower-cased GUID of the channel's device, "-" and the channel number,
\* before and after any refresh.
C6_StableIdentity ==
    \A e \in DOMAIN entities :
        LET channel == ChannelById(remote, entities[e].server_name,
                                   entities[e].channel_data.id)
        IN  unique_id(entities[e]) =
                [raised |-> FALSE,
                 value |-> <<"s", "u", "p", "l", "a", "-">>
                           \o Lower(channel.iodevice.gUIDString)
                           \o <<"-">>
                           \o Format(channel.channelNumber)]

\* C8: when get_channel raises inside an update() call, every entity keeps
\* the channel_data it held, exactly one get_channel call was made, and
\* hass.data[SUPLA_SERVERS] is unchanged.
C8_FailedRefresh ==
    [][(/\ Len(requests') = Len(requests) + 1
        /\ requests'[Len(requests')].outcome = "raised")
          => /\ \A e \in DOMAIN entities :
                   entities'[e].channel_data = entities[e].channel_data
             /\ Len(api_calls') = Len(api_calls) + 1
             /\ supla_servers' = supla_servers]_vars

\* get_channel raised for an entity that had been refreshed before, while
\* another entity exists
C8_Witness ==
    /\ Len(entities) >= 2
    /\ \E i, j \in DOMAIN requests :
          /\ i < j
          /\ requests[i].entity = requests[j].entity
          /\ requests[i].outcome = "fetched"
          /\ requests[j].outcome = "raised"

\* C10 as stated: the get_channel calls made on one server in any 3600
\* seconds number at most 950.
C10_HourlyBudget ==
    \A i \in DOMAIN api_calls :
        Cardinality({j \in DOMAIN api_calls :
                        /\ api_calls[j].server = api_calls[i].server
                        /\ api_calls[i].time <= api_calls[j].time
                        /\ api_calls[j].time < api_calls[i].time + 3600}) <= 950

====
